---- MODULE Spec2Model ----
(***************************************************************************)
(* Model of crossCalib.py: whiteCalib (spectral division of two traces on  *)
(* a reconciled frequency axis), crossCalib (optional highpass filter and  *)
(* deconvolution, then whiteCalib) and Hparameters (corner frequency from  *)
(* the bin of the window [imin, inorm) where |Re(H)| is smallest).         *)
(*                                                                         *)
(* Frequencies are exact rationals, held as integers in units of           *)
(* 1/Scale Hz.  Samples and spectrum values are symbolic: a spectrum bin   *)
(* is named by the data it was computed from and its FFT index, a trace's  *)
(* data by its origin and the processing applied to it, in order.          *)
(* Indices are Python's (0-based); sequences are TLA+'s (1-based).         *)
(***************************************************************************)
EXTENDS Integers, Sequences, FiniteSets, TLC

VARIABLES
    heap,            \* the Trace objects alive, by reference (1..Len(heap))
    monitor_trace,   \* reference to the caller's monitor trace
    response_trace,  \* reference to the caller's response trace
    pc,              \* "idle" | "returned"
    fn,              \* the function of the last call
    kwargs,          \* keyword arguments of the last call
    ret,             \* outcome of the last call
    H,               \* Hparameters' argument H (real parts)
    f                \* Hparameters' argument f

vars == <<heap, monitor_trace, response_trace, pc, fn, kwargs, ret, H, f>>

-----------------------------------------------------------------------------
(* Bounds *)

MaxN == 8      \* traces hold 1..MaxN samples
MaxBins == 5   \* Hparameters' H and f hold 1..MaxBins bins
MaxRate == 2   \* sampling rates 1..MaxRate Hz
MaxSmooth == 1 \* smooth windows 0..MaxSmooth
MaxFilter == 1 \* highpass corners 1..MaxFilter Hz
MaxQuarter == 2 \* fnorm, fmin in -1/4 .. MaxQuarter/4 Hz, by quarters

(* Program constants *)

FminDenom == 1000           \* default fmin is 0.001 = 1/1000 Hz
SmoothDenom == 10000        \* default window is int(len(f1)*0.0001)
FilterCorners == 4          \* corners=4

RECURSIVE Gcd(_, _)
Gcd(a, b) == IF b = 0 THEN a ELSE Gcd(b, a % b)

RECURSIVE LcmUpTo(_)
LcmUpTo(n) == IF n <= 1 THEN 1
              ELSE LET l == LcmUpTo(n - 1) IN (l \div Gcd(l, n)) * n

\* Every k*rate/n (n a length of the model) and 0.001 Hz are whole multiples
\* of 1/Scale Hz.
Scale == FminDenom * LcmUpTo(IF MaxN > MaxBins THEN MaxN ELSE MaxBins)

Abs(x) == IF x < 0 THEN -x ELSE x

-----------------------------------------------------------------------------
(* numpy *)

\* np.fft.fftfreq(n, d=1./rate): 0, 1, .., (n-1)//2, -(n//2), .., -1 times rate/n
FftFreq(n, rate) ==
    [i \in 1..n |->
        (IF i - 1 <= (n - 1) \div 2 THEN i - 1 ELSE i - 1 - n) * rate * (Scale \div n)]

\* np.fft.fft(data): one bin per sample, in the same order as fftfreq
Fft(tr) == [i \in 1..tr.npts |-> [data |-> tr.data, bin |-> i - 1]]

RECURSIVE SumSeq(_)
SumSeq(s) == IF Len(s) = 0 THEN 0 ELSE Head(s) + SumSeq(Tail(s))

\* np.amax(np.absolute(s)), s not empty
AmaxAbs(s) == CHOOSE m \in {Abs(s[i]) : i \in 1..Len(s)} :
                 \A j \in 1..Len(s) : Abs(s[j]) <= m

\* np.where(np.absolute(s) < fmax): the (1-based) positions kept, ascending
RECURSIVE WhereBelow(_, _, _)
WhereBelow(s, fmax, i) ==
    IF i > Len(s) THEN <<>>
    ELSE (IF Abs(s[i]) < fmax THEN <<i>> ELSE <<>>) \o WhereBelow(s, fmax, i + 1)

\* s[idx] for an index array idx
Take(s, idx) == [k \in 1..Len(idx) |-> s[idx[k]]]

\* np.argmax(s) / np.argmin(s) on numbers: first position of the extreme (0-based)
ArgMax(s) == (CHOOSE i \in 1..Len(s) :
                 /\ \A j \in 1..Len(s) : s[j] <= s[i]
                 /\ \A j \in 1..(i - 1) : s[j] < s[i]) - 1

ArgMin(s) == (CHOOSE i \in 1..Len(s) :
                 /\ \A j \in 1..Len(s) : s[i] <= s[j]
                 /\ \A j \in 1..(i - 1) : s[i] < s[j]) - 1

\* np.delete(s, i), i 0-based
Delete(s, i) == [k \in 1..(Len(s) - 1) |-> IF k <= i THEN s[k] ELSE s[k + 1]]

-----------------------------------------------------------------------------
(* obspy Trace: data (origin and processing history), npts, sampling_rate *)

NewTrace(origin, n, rate) ==
    [data |-> [origin |-> origin, ops |-> <<>>], npts |-> n, sampling_rate |-> rate]

\* a slip: the trace itself instead of a copy of it
TraceAlias(hp, ref) == [heap |-> hp, ref |-> ref]

\* Trace.copy(): a new object holding a deep copy, and the reference to it
TraceCopy(hp, ref) == [heap |-> Append(hp, hp[ref]), ref |-> Len(hp) + 1]

\* Trace.filter(type, freq=, corners=, zerophase=): filters the object's data in place
TraceFilter(hp, ref, type, freq, corners, zerophase) ==
    [hp EXCEPT ![ref].data.ops =
        Append(@, [op |-> "filter", type |-> type, freq |-> freq,
                   corners |-> corners, zerophase |-> zerophase])]

\* Trace.simulate(paz_remove=, taper=, zero_mean=): deconvolves the object's data in place
TraceSimulate(hp, ref, paz, taper, zero_mean) ==
    [hp EXCEPT ![ref].data.ops =
        Append(@, [op |-> "simulate", paz_remove |-> paz,
                   taper |-> taper, zero_mean |-> zero_mean])]

\* obspy.signal.util.smooth(x, w): central moving average, same length; w <= 0 returns x
Smooth(x, w) ==
    IF w > 0 THEN [i \in 1..Len(x) |-> [smooth |-> w, centre |-> x[i]]] ELSE x

-----------------------------------------------------------------------------
(* whiteCalib *)

MixWarning ==
    "Warning: frequencies arrays does'nt have same length or frequencies arrays not strictly identical, mixing"

\* a slip: the sum of f1+f2 instead of f1-f2
FreqMismatchSign(f1, f2) ==
    \/ Len(f1) - Len(f2) # 0
    \/ SumSeq([i \in 1..Len(f1) |-> f1[i] + f2[i]]) # 0

\* line 50: len(f1)-len(f2) != 0 or np.sum(f1-f2)!=0   (or short-circuits).
\* The sum is the exact, rational one.  In floating point the bins k*val and
\* -k*val are exact negations, so 0 + a + (-a) is 0 on three bins as well;
\* on long axes rounding may leave a residue.
FreqMismatch(f1, f2) ==
    \/ Len(f1) - Len(f2) # 0
    \/ SumSeq([i \in 1..Len(f1) |-> f1[i] - f2[i]]) # 0

\* lines 61-66 (68-73): delete the bin at argmax, then the bin at argmin of what is left.
\* np.argmin of an empty array raises ValueError.
TrimEdges(fa, sa) ==
    LET i  == ArgMax(fa)
        fb == Delete(fa, i)
        sb == Delete(sa, i)
    IN  IF Len(fb) = 0
        THEN [raised |-> "ValueError", f |-> fb, s |-> sb]
        ELSE LET j == ArgMin(fb)
             IN  [raised |-> "", f |-> Delete(fb, j), s |-> Delete(sb, j)]

\* lines 52-73: keep |f| < fmax in each axis, then trim the longer one once
Mix(f1, mSpectre, f2, rSpectre) ==
    LET a    == AmaxAbs(f1)
        b    == AmaxAbs(f2)
        fmax == IF a <= b THEN a ELSE b
        i1   == WhereBelow(f1, fmax, 1)
        i2   == WhereBelow(f2, fmax, 1)
        g1   == Take(f1, i1)
        m1   == Take(mSpectre, i1)
        g2   == Take(f2, i2)
        r1   == Take(rSpectre, i2)
    IN  IF Len(g1) > Len(g2)
        THEN LET t == TrimEdges(g1, m1)
             IN  [raised |-> t.raised, f1 |-> t.f, mSpectre |-> t.s,
                  f2 |-> g2, rSpectre |-> r1]
        ELSE IF Len(g2) > Len(g1)
        THEN LET t == TrimEdges(g2, r1)
             IN  [raised |-> t.raised, f1 |-> g1, mSpectre |-> m1,
                  f2 |-> t.f, rSpectre |-> t.s]
        ELSE [raised |-> "", f1 |-> g1, mSpectre |-> m1, f2 |-> g2, rSpectre |-> r1]

\* lines 50-73
Align(f1, mSpectre, f2, rSpectre) ==
    IF FreqMismatch(f1, f2)
    THEN [stdout |-> <<MixWarning>>] @@ Mix(f1, mSpectre, f2, rSpectre)
    ELSE [stdout |-> <<>>, raised |-> "", f1 |-> f1, mSpectre |-> mSpectre,
          f2 |-> f2, rSpectre |-> rSpectre]

\* line 76: rSpectre/mSpectre with numpy broadcasting: equal shapes divide
\* elementwise, a length-1 operand is stretched, anything else is a ValueError
CanDivide(rSpectre, mSpectre) ==
    Len(rSpectre) = Len(mSpectre) \/ Len(rSpectre) = 1 \/ Len(mSpectre) = 1

Divide(rSpectre, mSpectre) ==
    LET n == IF Len(rSpectre) = Len(mSpectre) THEN Len(rSpectre)
             ELSE IF Len(mSpectre) = 1 THEN Len(rSpectre) ELSE Len(mSpectre)
    IN  [i \in 1..n |->
            [num |-> IF Len(rSpectre) = n THEN rSpectre[i] ELSE rSpectre[1],
             den |-> IF Len(mSpectre) = n THEN mSpectre[i] ELSE mSpectre[1]]]

\* lines 78-81: the window given, or int(len(f1)*0.0001)
SmoothWindow(kw, f1) ==
    IF "smooth" \in DOMAIN kw THEN kw["smooth"] ELSE Len(f1) \div SmoothDenom

\* lines 37-83.  The value holds what the call leaves behind: the heap, what was
\* written to stdout, the exception raised ("" if none), the aligned axes and
\* spectra, and the pair (H, f) returned.
WhiteCalib(hp, monitor, response, kw) ==
    LET c1  == TraceCopy(hp, monitor)
        m_trace == c1.ref
        c2  == TraceCopy(c1.heap, response)
        r_trace == c2.ref
        h2  == c2.heap
        mSpectre == Fft(h2[m_trace])
        rSpectre == Fft(h2[r_trace])
        f1  == FftFreq(Len(mSpectre), h2[m_trace].sampling_rate)
        f2  == FftFreq(Len(rSpectre), h2[r_trace].sampling_rate)
        al  == Align(f1, mSpectre, f2, rSpectre)
        loc == [heap |-> h2, stdout |-> al.stdout, m_trace |-> m_trace,
                r_trace |-> r_trace, f1 |-> al.f1, f2 |-> al.f2,
                mSpectre |-> al.mSpectre, rSpectre |-> al.rSpectre]
    IN  IF al.raised # ""
        THEN loc @@ [raised |-> al.raised, H |-> <<>>, f |-> <<>>]
        ELSE IF ~CanDivide(al.rSpectre, al.mSpectre)
        THEN loc @@ [raised |-> "ValueError", H |-> <<>>, f |-> <<>>]
        ELSE loc @@ [raised |-> "",
                     H |-> Smooth(Divide(al.rSpectre, al.mSpectre),
                                  SmoothWindow(kw, al.f1)),
                     f |-> al.f1]

-----------------------------------------------------------------------------
(* crossCalib *)

PazError == "Error: No paz for deconvolution"

\* lines 90-92
FilterBoth(hp, in_trace, out_trace, kw) ==
    IF "ffilter" \in DOMAIN kw
    THEN TraceFilter(TraceFilter(hp, in_trace, "highpass", kw["ffilter"],
                                 FilterCorners, TRUE),
                     out_trace, "highpass", kw["ffilter"], FilterCorners, TRUE)
    ELSE hp

\* a slip: the response copy deconvolved instead of the monitor copy
DeconvolveResponse(hp, in_trace, out_trace, kw) ==
    IF "deconvolve" \in DOMAIN kw /\ kw["deconvolve"]
    THEN IF "paz" \in DOMAIN kw
         THEN [heap |-> TraceSimulate(hp, out_trace, kw["paz"], FALSE, FALSE),
               stdout |-> <<>>]
         ELSE [heap |-> hp, stdout |-> <<PazError>>]
    ELSE [heap |-> hp, stdout |-> <<>>]

\* lines 94-98: the heap and what is written to stdout
Deconvolve(hp, in_trace, out_trace, kw) ==
    IF "deconvolve" \in DOMAIN kw /\ kw["deconvolve"]
    THEN IF "paz" \in DOMAIN kw
         THEN [heap |-> TraceSimulate(hp, in_trace, kw["paz"], FALSE, FALSE),
               stdout |-> <<>>]
         ELSE [heap |-> hp, stdout |-> <<PazError>>]
    ELSE [heap |-> hp, stdout |-> <<>>]

\* lines 100-103: only smooth is passed on
ForwardKwargs(kw) ==
    IF "smooth" \in DOMAIN kw THEN [k \in {"smooth"} |-> kw[k]] ELSE <<>>

\* lines 85-105
CrossCalib(hp, monitor, response, kw) ==
    LET c1 == TraceCopy(hp, monitor)
        in_trace == c1.ref
        c2 == TraceCopy(c1.heap, response)
        out_trace == c2.ref
        h2 == c2.heap
        h3 == FilterBoth(h2, in_trace, out_trace, kw)
        d  == Deconvolve(h3, in_trace, out_trace, kw)
        w  == WhiteCalib(d.heap, in_trace, out_trace, ForwardKwargs(kw))
    IN  [w EXCEPT !.stdout = d.stdout \o @]
        @@ [in_trace |-> in_trace, out_trace |-> out_trace]

-----------------------------------------------------------------------------
(* Hparameters.  H is held by its real parts, the only part lines 114-127 *)
(* read: a float is a number or nan.                                       *)

NaN == [nan |-> TRUE, v |-> 0]
Num(x) == [nan |-> FALSE, v |-> x]

\* np.absolute on a float
AbsF(x) == IF x.nan THEN x ELSE Num(Abs(x.v))

\* a <= b on floats: false as soon as one is nan
LeF(a, b) == ~a.nan /\ ~b.nan /\ a.v <= b.v

\* np.argmin on floats: the first nan if there is one, else the first minimum
ArgMinF(s) ==
    IF \E i \in 1..Len(s) : s[i].nan
    THEN (CHOOSE i \in 1..Len(s) : s[i].nan /\ \A j \in 1..(i - 1) : ~s[j].nan) - 1
    ELSE ArgMin([i \in 1..Len(s) |-> s[i].v])

\* a slip: the bounds put in order, so that s[lo:hi] with lo > hi is s[hi:lo]
SliceOrdered(s, lo, hi) ==
    IF lo <= hi THEN SubSeq(s, lo + 1, IF hi < Len(s) THEN hi ELSE Len(s))
    ELSE SubSeq(s, hi + 1, IF lo < Len(s) THEN lo ELSE Len(s))

\* s[lo:hi] for 0 <= lo, 0 <= hi
Slice(s, lo, hi) == SubSeq(s, lo + 1, IF hi < Len(s) THEN hi ELSE Len(s))

\* int(np.absolute(f-x).argmin())
Closest(fa, x) == ArgMin([i \in 1..Len(fa) |-> Abs(fa[i] - x)])

\* lines 114-117 and 120-123: the frequency given, or 1 Hz / 0.001 Hz
Fnorm(kw) == IF "fnorm" \in DOMAIN kw THEN kw["fnorm"] ELSE Scale
Fmin(kw) == IF "fmin" \in DOMAIN kw THEN kw["fmin"] ELSE Scale \div FminDenom

\* a slip: np.absolute left out
WindowSigned(Hre, imin, inorm) == Slice(Hre, imin, inorm)

\* line 126: np.absolute(np.real(H[imin:inorm]))
Window(Hre, imin, inorm) ==
    LET w == Slice(Hre, imin, inorm) IN [i \in 1..Len(w) |-> AbsF(w[i])]

NoTriple == [raised |-> "ValueError"]

\* lines 107-149: argmin of an empty array raises ValueError; otherwise the
\* corner frequency f[indx] is returned (with damping and sensitivity, floats
\* computed from |H| that do not decide indx)
Hparameters(Hre, fa, kw) ==
    IF Len(fa) = 0 THEN NoTriple
    ELSE LET inorm == Closest(fa, Fnorm(kw))
             imin  == Closest(fa, Fmin(kw))
             w     == Window(Hre, imin, inorm)
         IN  IF Len(w) = 0
             THEN NoTriple @@ [imin |-> imin, inorm |-> inorm]
             ELSE LET indx == ArgMinF(w) + imin
                  IN  [raised |-> "", imin |-> imin, inorm |-> inorm,
                       indx |-> indx, corner |-> fa[indx + 1]]

-----------------------------------------------------------------------------
(* The callers *)

NoKwargs == <<>>

Opt(key, vals) == {NoKwargs} \cup {[k \in {key} |-> v] : v \in vals}

WhiteKwargs == Opt("smooth", 0..MaxSmooth)

CrossKwargs ==
    {a @@ b @@ c @@ d : a \in Opt("ffilter", 1..MaxFilter),
                        b \in Opt("deconvolve", BOOLEAN),
                        c \in Opt("paz", {"paz"}),
                        d \in Opt("smooth", 0..MaxSmooth)}

FreqArgs == {k * (Scale \div 4) : k \in (-1)..MaxQuarter}

HKwargs == {a @@ b : a \in Opt("fnorm", FreqArgs), b \in Opt("fmin", FreqArgs)}

ReVals == {NaN} \cup {Num(x) : x \in {-1, 0, 1}}

NoRet == [raised |-> ""]

\* what a call leaves for inspection, the heap apart
Outcome(r) == [k \in DOMAIN r \ {"heap"} |-> r[k]]

\* A caller holding a monitor and a response trace
Init ==
    /\ \E n1 \in 1..MaxN, n2 \in 1..MaxN, s1 \in 1..MaxRate, s2 \in 1..MaxRate :
          heap = <<NewTrace("monitor", n1, s1), NewTrace("response", n2, s2)>>
    /\ monitor_trace = 1
    /\ response_trace = 2
    /\ pc = "idle"
    /\ fn = ""
    /\ kwargs = NoKwargs
    /\ ret = NoRet
    /\ H = <<>>
    /\ f = <<>>

\* (H,f)=whiteCalib(monitor_trace, response_trace, **kw)
CallWhiteCalib ==
    /\ pc = "idle"
    /\ \E kw \in WhiteKwargs :
          LET r == WhiteCalib(heap, monitor_trace, response_trace, kw)
          IN  /\ heap' = r.heap
              /\ ret' = Outcome(r)
              /\ kwargs' = kw
    /\ fn' = "whiteCalib"
    /\ pc' = "returned"
    /\ UNCHANGED <<monitor_trace, response_trace, H, f>>

\* (H,f)=crossCalib(monitor_trace, response_trace, **kw)
CallCrossCalib ==
    /\ pc = "idle"
    /\ \E kw \in CrossKwargs :
          LET r == CrossCalib(heap, monitor_trace, response_trace, kw)
          IN  /\ heap' = r.heap
              /\ ret' = Outcome(r)
              /\ kwargs' = kw
    /\ fn' = "crossCalib"
    /\ pc' = "returned"
    /\ UNCHANGED <<monitor_trace, response_trace, H, f>>

\* The caller takes the outcome; the callee's locals are gone
Return ==
    /\ pc = "returned"
    /\ heap' = SubSeq(heap, 1, 2)
    /\ pc' = "idle"
    /\ fn' = ""
    /\ kwargs' = NoKwargs
    /\ ret' = NoRet
    /\ UNCHANGED <<monitor_trace, response_trace, H, f>>

Next == CallWhiteCalib \/ CallCrossCalib \/ Return

Spec == Init /\ [][Next]_vars

\* A caller holding a transfer function (H, f) on an FFT-order axis: H has
\* one value per bin of f, or, as whiteCalib can return it when the division
\* of line 76 broadcasts, several values against the single bin f = [0]
InitH ==
    /\ \E n \in 1..MaxBins, m \in 1..MaxBins, rate \in 1..MaxRate :
          /\ m = n \/ n = 1
          /\ f = FftFreq(n, rate)
          /\ H \in [1..m -> ReVals]
    /\ heap = <<>>
    /\ monitor_trace = 0
    /\ response_trace = 0
    /\ pc = "idle"
    /\ fn = ""
    /\ kwargs = NoKwargs
    /\ ret = NoRet

\* Hparameters(H, f, **kw)
CallHparameters ==
    /\ pc = "idle"
    /\ \E kw \in HKwargs :
          /\ ret' = Hparameters(H, f, kw)
          /\ kwargs' = kw
    /\ fn' = "Hparameters"
    /\ pc' = "returned"
    /\ UNCHANGED <<heap, monitor_trace, response_trace, H, f>>

ReturnH ==
    /\ pc = "returned"
    /\ pc' = "idle"
    /\ fn' = ""
    /\ kwargs' = NoKwargs
    /\ ret' = NoRet
    /\ UNCHANGED <<heap, monitor_trace, response_trace, H, f>>

NextH == CallHparameters \/ ReturnH

SpecH == InitH /\ [][NextH]_vars

-----------------------------------------------------------------------------
(* Properties of whiteCalib *)

Returned(name) == pc = "returned" /\ fn = name

\* the two frequency axes as they enter the alignment step
AxisIn1 == FftFreq(heap[monitor_trace].npts, heap[monitor_trace].sampling_rate)
AxisIn2 == FftFreq(heap[response_trace].npts, heap[response_trace].sampling_rate)

\* fmax = min(max|f1|, max|f2|) of the axes entering the alignment step
FmaxIn == IF AmaxAbs(AxisIn1) <= AmaxAbs(AxisIn2)
          THEN AmaxAbs(AxisIn1) ELSE AmaxAbs(AxisIn2)

\* C1: after the alignment step of whiteCalib (filter to |f| < fmax, then edge
\* trimming) the two frequency axes have equal length, and so have the two
\* spectra.
C1_AlignedLengthsEqual ==
    Returned("whiteCalib") =>
        /\ Len(ret.f1) = Len(ret.f2)
        /\ Len(ret.mSpectre) = Len(ret.rSpectre)

\* C2: for every pair of non-empty traces whiteCalib runs to completion and
\* returns a pair (H, f); a mismatch of the axes shows only as the warning,
\* never as an error in the spectral division.
C2_NeverAborts ==
    Returned("whiteCalib") =>
        /\ ret.raised = ""
        /\ ret.stdout \in {<<>>, <<MixWarning>>}

\* C3: every pair (H, f) returned by whiteCalib, and so by crossCalib,
\* satisfies len(H) == len(f).
C3_ReturnedLengthsEqual ==
    ((Returned("whiteCalib") \/ Returned("crossCalib")) /\ ret.raised = "") =>
        Len(ret.H) = Len(ret.f)

\* C9: whenever the two frequency axes differ, in length or in at least one
\* element, whiteCalib emits the mismatch warning and keeps in each axis only
\* bins with |f| < fmax = min(max|f1|, max|f2|); two different axes of equal
\* length are never divided without reconciling.
C9_MismatchAlwaysReconciled ==
    (Returned("whiteCalib") /\ AxisIn1 # AxisIn2) =>
        /\ ret.stdout = <<MixWarning>>
        /\ \A i \in 1..Len(ret.f1) : Abs(ret.f1[i]) < FmaxIn
        /\ \A i \in 1..Len(ret.f2) : Abs(ret.f2[i]) < FmaxIn

\* C4: if the two frequency axes have the same length and are equal element
\* by element, the alignment step of whiteCalib does nothing: no warning, no
\* bin removed from either axis or either spectrum, and the axis returned is
\* the full monitor axis.
C4_IdenticalAxesUntouched ==
    (Returned("whiteCalib") /\ AxisIn1 = AxisIn2) =>
        /\ ret.stdout = <<>>
        /\ ret.raised = ""
        /\ ret.f1 = AxisIn1
        /\ ret.f2 = AxisIn2
        /\ ret.mSpectre = Fft(heap[monitor_trace])
        /\ ret.rSpectre = Fft(heap[response_trace])
        /\ ret.f = AxisIn1
        /\ Len(ret.H) = heap[monitor_trace].npts

C4_Witness ==
    /\ Returned("whiteCalib")
    /\ AxisIn1 = AxisIn2
    /\ Len(AxisIn1) > 1
    /\ Len(ret.f) = Len(AxisIn1)

-----------------------------------------------------------------------------
(* Properties of crossCalib *)

Has(key) == key \in DOMAIN kwargs

\* the processing histories of crossCalib's two copies
InOps == heap[ret.in_trace].data.ops
OutOps == heap[ret.out_trace].data.ops

\* the highpass asked for by ffilter, the deconvolution asked for by paz
Highpass == [op |-> "filter", type |-> "highpass", freq |-> kwargs["ffilter"],
             corners |-> 4, zerophase |-> TRUE]
PazRemoval == [op |-> "simulate", paz_remove |-> kwargs["paz"],
               taper |-> FALSE, zero_mean |-> FALSE]

\* C5: whiteCalib and crossCalib never mutate the caller's monitor or response
\* trace: whatever the options, samples and sampling rate of both are the
\* same after the call as before.
C5_CallerTracesUntouched ==
    [][/\ heap'[monitor_trace] = heap[monitor_trace]
       /\ heap'[response_trace] = heap[response_trace]]_vars

C5_Witness ==
    /\ Returned("crossCalib")
    /\ Has("ffilter") /\ Has("deconvolve") /\ kwargs["deconvolve"] /\ Has("paz")
    /\ Len(InOps) = 2
    /\ Len(OutOps) = 1
    /\ heap[monitor_trace].data.ops = <<>>
    /\ heap[response_trace].data.ops = <<>>

\* the outcome of whiteCalib called directly on the caller's traces, highpass
\* filtered if ffilter is given and not deconvolved, with the same smooth
DirectWhiteCalib ==
    LET hp == IF Has("ffilter")
              THEN [i \in 1..2 |->
                      [heap[i] EXCEPT !.data.ops = Append(@, Highpass)]]
              ELSE SubSeq(heap, 1, 2)
    IN  WhiteCalib(hp, monitor_trace, response_trace,
                   IF Has("smooth") THEN [k \in {"smooth"} |-> kwargs[k]] ELSE <<>>)

MissingPaz ==
    Returned("crossCalib") /\ Has("deconvolve") /\ kwargs["deconvolve"] /\ ~Has("paz")

\* C6: crossCalib called with deconvolve=true and no paz does not raise: it
\* emits the error message, deconvolves nothing, and returns exactly the
\* (H, f) of a direct whiteCalib call on the (filtered if ffilter is given,
\* not deconvolved) traces with the same smooth option.
C6_MissingPazCompletes ==
    MissingPaz =>
        /\ ret.raised = ""
        /\ Head(ret.stdout) = PazError
        /\ \A i \in 1..Len(InOps) : InOps[i].op # "simulate"
        /\ DirectWhiteCalib.raised = ""
        /\ <<ret.H, ret.f>> = <<DirectWhiteCalib.H, DirectWhiteCalib.f>>

\* C7: in crossCalib, when ffilter is present the same highpass (4 corners,
\* zero-phase, corner = ffilter) is applied to the monitor copy and to the
\* response copy, before any deconvolution; the instrument response is
\* removed only when deconvolve is true and paz is present, and then from
\* the monitor copy only.
C7_FilterThenDeconvolveMonitorOnly ==
    Returned("crossCalib") =>
        LET filtered == IF Has("ffilter") THEN <<Highpass>> ELSE <<>>
            removed  == IF Has("deconvolve") /\ kwargs["deconvolve"] /\ Has("paz")
                        THEN <<PazRemoval>> ELSE <<>>
        IN  /\ InOps = filtered \o removed
            /\ OutOps = filtered

C7_Witness ==
    /\ Returned("crossCalib")
    /\ Has("ffilter") /\ Has("deconvolve") /\ kwargs["deconvolve"] /\ Has("paz")
    /\ InOps = <<Highpass, PazRemoval>>
    /\ OutOps = <<Highpass>>

-----------------------------------------------------------------------------
(* Properties of Hparameters *)

\* |Re(H[j])| for a 0-based bin j
AbsRe(j) == AbsF(H[j + 1])

\* i is a bin of f closest to x
IsClosest(i, x) ==
    /\ i \in 0..(Len(f) - 1)
    /\ \A j \in 1..Len(f) : Abs(f[i + 1] - x) <= Abs(f[j] - x)

\* imin and inorm are bins closest to fmin and fnorm
WindowOf(imin, inorm) ==
    /\ IsClosest(inorm, IF Has("fnorm") THEN kwargs["fnorm"] ELSE Scale)
    /\ IsClosest(imin, IF Has("fmin") THEN kwargs["fmin"] ELSE Scale \div 1000)

ProperWindow ==
    Returned("Hparameters") /\ WindowOf(ret.imin, ret.inorm) /\ ret.imin < ret.inorm

NanInWindow == \E j \in ret.imin..(ret.inorm - 1) : AbsRe(j).nan

\* C8 as stated: for every (H, f) and options with imin < inorm, the corner
\* frequency returned is f[indx] with imin <= indx < inorm and
\* |Re(H[indx])| <= |Re(H[j])| for every j in [imin, inorm).
C8_CornerMinimisesWindow ==
    ProperWindow =>
        /\ ret.raised = ""
        /\ ret.corner = f[ret.indx + 1]
        /\ ret.imin <= ret.indx /\ ret.indx < ret.inorm
        /\ \A j \in ret.imin..(ret.inorm - 1) : LeF(AbsRe(ret.indx), AbsRe(j))

\* C8 amended: for every (H, f) and options with imin < inorm, the corner
\* frequency returned is f[indx] with imin <= indx < inorm; if no real part
\* in the window is nan, |Re(H[indx])| <= |Re(H[j])| for every j in the
\* window; if one is, indx is the first bin of the window whose real part is
\* nan.  With fnorm >= 0 the window holds no negative-frequency bin, so the
\* corner frequency is >= 0.
C8_CornerMinimisesWindowWithoutNan ==
    ProperWindow =>
        /\ ret.raised = ""
        /\ ret.corner = f[ret.indx + 1]
        /\ ret.imin <= ret.indx /\ ret.indx < ret.inorm
        /\ ~NanInWindow =>
              \A j \in ret.imin..(ret.inorm - 1) : LeF(AbsRe(ret.indx), AbsRe(j))
        /\ NanInWindow =>
              /\ AbsRe(ret.indx).nan
              /\ \A j \in ret.imin..(ret.indx - 1) : ~AbsRe(j).nan
        /\ (~Has("fnorm") \/ kwargs["fnorm"] >= 0) =>
              \A j \in ret.imin..(ret.inorm - 1) : f[j + 1] >= 0

\* a window of two bins or more whose smallest |Re(H)| is not at its first bin
C8_Witness ==
    /\ ProperWindow
    /\ ~NanInWindow
    /\ ret.inorm - ret.imin >= 2
    /\ ret.indx > ret.imin
    /\ ret.corner = f[ret.indx + 1]
    /\ ~LeF(AbsRe(ret.imin), AbsRe(ret.indx))

DegenerateWindow ==
    Returned("Hparameters") /\ WindowOf(ret.imin, ret.inorm) /\ ret.imin >= ret.inorm

\* C10: when the search window is degenerate (imin >= inorm), Hparameters
\* fails with an error and returns no (corner frequency, damping,
\* sensitivity) triple: no corner frequency comes out of an empty window.
C10_DegenerateWindowFails ==
    DegenerateWindow =>
        /\ ret.raised # ""
        /\ "corner" \notin DOMAIN ret
        /\ "indx" \notin DOMAIN ret

\* fmin above fnorm: the window is empty and the call has failed
C10_Witness ==
    /\ DegenerateWindow
    /\ ret.imin > ret.inorm
    /\ ret.raised = "ValueError"

====
